---- MODULE Spec2Model ----
(***************************************************************************)
(* The LLM router of nanoclaw: src/src/llm-router.ts (loadConfig,          *)
(* classifyMessages, tryOllamaRoute) and src/src/ollama-client.ts          *)
(* (queryOllama).                                                          *)
(*                                                                         *)
(* A string is a sequence of one-character strings, so that the regular    *)
(* expressions of the source act on characters as they do in the code.     *)
(***************************************************************************)
EXTENDS Integers, Sequences, FiniteSets, TLC

(***************************************************************************)
(* Characters and the character classes of the regular expressions.        *)
(***************************************************************************)
UpperLetters == <<"A","B","C","D","E","F","G","H","I","J","K","L","M",
                  "N","O","P","Q","R","S","T","U","V","W","X","Y","Z">>
LowerLetters == <<"a","b","c","d","e","f","g","h","i","j","k","l","m",
                  "n","o","p","q","r","s","t","u","v","w","x","y","z">>
Digits == {"0","1","2","3","4","5","6","7","8","9"}

LowerSet == {LowerLetters[i] : i \in 1..26}
UpperSet == {UpperLetters[i] : i \in 1..26}

\* \s of the regular expressions
Whitespace == {" ", "\t", "\n"}
\* \w of the regular expressions: \b is a boundary between \w and not \w
WordChars == LowerSet \cup UpperSet \cup Digits \cup {"_"}

IsSpace(ch) == ch \in Whitespace
IsWordChar(ch) == ch \in WordChars

\* String.prototype.toLowerCase, one character
LowerChar(ch) ==
  IF ch \in UpperSet
    THEN LowerLetters[CHOOSE i \in 1..26 : UpperLetters[i] = ch]
    ELSE ch

\* String.prototype.toLowerCase
toLowerCase(s) == [i \in 1..Len(s) |-> LowerChar(s[i])]

\* The suffix of s from index i on (the empty string when i > Len(s))
From(s, i) == SubSeq(s, i, Len(s))

\* The least index >= i of a character that is not whitespace, Len(s)+1 if none
SkipSpace(s, i) ==
  CHOOSE k \in i..(Len(s) + 1) :
    /\ \A j \in i..(k - 1) : IsSpace(s[j])
    /\ (k = Len(s) + 1 \/ ~IsSpace(s[k]))

\* The least index >= i of a whitespace character, Len(s)+1 if none
SkipNonSpace(s, i) ==
  CHOOSE k \in i..(Len(s) + 1) :
    /\ \A j \in i..(k - 1) : ~IsSpace(s[j])
    /\ (k = Len(s) + 1 \/ IsSpace(s[k]))

\* String.prototype.trim
trim(s) ==
  LET a == SkipSpace(s, 1)
      b == IF a > Len(s) THEN 0
           ELSE CHOOSE k \in a..Len(s) :
                  /\ ~IsSpace(s[k])
                  /\ \A j \in (k + 1)..Len(s) : IsSpace(s[j])
  IN SubSeq(s, a, b)

\* s.replace(/^@\S+\s*/u, ''): a leading "@" and at least one more character
\* that is not whitespace, with the whitespace that follows the token
stripMention(s) ==
  IF Len(s) >= 2 /\ s[1] = "@" /\ ~IsSpace(s[2])
    THEN From(s, SkipSpace(s, SkipNonSpace(s, 2)))
    ELSE s

LocalToken == <<"!","l","o","c","a","l">>

\* Whether s begins with "!local", whatever the case of its letters
startsWithLocal(s) ==
  /\ Len(s) >= Len(LocalToken)
  /\ toLowerCase(SubSeq(s, 1, Len(LocalToken))) = LocalToken

\* s.replace(/^!local\s*/i, ''): no word boundary is asked for here
stripLocal(s) ==
  IF startsWithLocal(s)
    THEN From(s, SkipSpace(s, Len(LocalToken) + 1))
    ELSE s

\* The test without its i flag: /^!local\b/.test(s)
testLocalDirective_CaseSensitive(s) ==
  /\ Len(s) >= Len(LocalToken)
  /\ SubSeq(s, 1, Len(LocalToken)) = LocalToken
  /\ (Len(s) = Len(LocalToken) \/ ~IsWordChar(s[Len(LocalToken) + 1]))

\* /^!local\b/i.test(s): "!local" and then the end or a character outside \w
testLocalDirective(s) ==
  /\ startsWithLocal(s)
  /\ (Len(s) = Len(LocalToken) \/ ~IsWordChar(s[Len(LocalToken) + 1]))

\* text.split(/\s+/) of a trimmed string: the maximal runs of characters that
\* are not whitespace; the empty string splits into one empty word
RECURSIVE splitFrom(_, _)
splitFrom(s, i) ==
  IF i > Len(s) THEN <<>>
  ELSE LET e == SkipNonSpace(s, i)
       IN <<SubSeq(s, i, e - 1)>> \o splitFrom(s, SkipSpace(s, e))

splitWhitespace(s) == IF s = <<>> THEN << <<>> >> ELSE splitFrom(s, 1)

(***************************************************************************)
(* The values of the program.                                              *)
(***************************************************************************)
\* null, and the undefined that indexing an empty array yields
Null == [null |-> TRUE]
Undefined == [undefined |-> TRUE]

\* RouteDecision, and the TypeError a property read of undefined throws
Decisions == {"ollama-forced", "ollama-simple", "ollama-privacy", "claude"}
TypeError == "TypeError"

VARIABLES
  file,          \* llm-routing.json on disk: missing, unparseable, or a config
  cachedConfig,  \* the module-level cache of loadConfig
  reads,         \* what the cache held at each readFileSync of loadConfig
  messages,      \* messages[c]: the conversation caller c holds
  classified,    \* classified[c]: what caller c's classifyMessages calls returned
  route          \* route[c]: caller c's tryOllamaRoute invocation, if any

(***************************************************************************)
(* loadConfig                                                              *)
(***************************************************************************)
FileMissing == [kind |-> "missing"]
FileInvalid == [kind |-> "invalid"]
FileWith(cfg) == [kind |-> "json", value |-> cfg]

\* loadConfig without the cache: the file is parsed at every call
loadConfig_NoCache ==
  IF file.kind = "json" THEN file.value ELSE Null

\* What loadConfig returns: the cached config when there is one, else the
\* parsed file, else null (readFileSync or JSON.parse threw)
loadConfig ==
  IF cachedConfig # Null THEN cachedConfig
  ELSE IF file.kind = "json" THEN file.value
  ELSE Null

\* if (cachedConfig) return cachedConfig: the file is read when the cache is
\* empty
readsFile == cachedConfig = Null

\* The reads so far and the one a loadConfig call makes
readFileSync == IF readsFile THEN reads \cup {cachedConfig} ELSE reads

(***************************************************************************)
(* The classifier's helpers                                                *)
(***************************************************************************)
isUserMessage(m) == ~m.is_from_me /\ ~m.is_bot_message

\* lastUserMessage giving a message without content for an empty conversation
lastUserMessage_Defaulting(msgs) ==
  LET userMessages == SelectSeq(msgs, isUserMessage)
  IN IF Len(userMessages) > 0 THEN userMessages[Len(userMessages)]
     ELSE IF Len(msgs) > 0 THEN msgs[Len(msgs)]
     ELSE [content |-> <<>>, is_from_me |-> FALSE, is_bot_message |-> FALSE]

lastUserMessage(msgs) ==
  LET userMessages == SelectSeq(msgs, isUserMessage)
  IN IF Len(userMessages) > 0 THEN userMessages[Len(userMessages)]
     ELSE IF Len(msgs) > 0 THEN msgs[Len(msgs)]
     ELSE Undefined

extractLastUserText(msgs) ==
  trim(stripLocal(stripMention(lastUserMessage(msgs).content)))

mentionStripped(msgs) ==
  trim(stripMention(lastUserMessage(msgs).content))

\* messages.map((m) => m.content).join(' ')
RECURSIVE joinContents(_)
joinContents(msgs) ==
  IF Len(msgs) = 0 THEN <<>>
  ELSE IF Len(msgs) = 1 THEN msgs[1].content
  ELSE msgs[1].content \o <<" ">> \o joinContents(Tail(msgs))

\* The pattern built from a keyword, kw.toLowerCase().replace(/\s+/g, '\\s+'),
\* as a sequence of atoms: "\\s+" for each run of whitespace, the character
\* itself otherwise. The keyword is not escaped: this reading of the pattern
\* is that of the regular expression for keywords without metacharacters.
WsAtom == "\\s+"

RECURSIVE compileFrom(_, _)
compileFrom(kw, i) ==
  IF i > Len(kw) THEN <<>>
  ELSE IF IsSpace(kw[i]) THEN <<WsAtom>> \o compileFrom(kw, SkipSpace(kw, i))
  ELSE <<kw[i]>> \o compileFrom(kw, i + 1)

compilePattern(kw) == compileFrom(toLowerCase(kw), 1)

\* \b before the character at index p (p = Len+1: at the end of the text)
wordBoundary(text, p) ==
  LET before == p > 1 /\ IsWordChar(text[p - 1])
      after == p <= Len(text) /\ IsWordChar(text[p])
  IN before # after

\* The index after the match of atoms[k..] at index p of text, 0 if none.
\* "\\s+" is followed by a character that is not whitespace or by \b, so it
\* takes the whole run.
RECURSIVE matchAt(_, _, _, _)
matchAt(atoms, k, text, p) ==
  IF k > Len(atoms) THEN p
  ELSE IF p > Len(text) THEN 0
  ELSE IF atoms[k] = WsAtom
    THEN IF IsSpace(text[p]) THEN matchAt(atoms, k + 1, text, SkipSpace(text, p))
         ELSE 0
  ELSE IF atoms[k] = text[p] THEN matchAt(atoms, k + 1, text, p + 1)
  ELSE 0

\* new RegExp(`\\b${...}\\b`).test(text)
patternTest(atoms, text) ==
  \E p \in 1..(Len(text) + 1) :
    /\ wordBoundary(text, p)
    /\ LET e == matchAt(atoms, 1, text, p)
       IN e # 0 /\ wordBoundary(text, e)

hasPrivacyKeyword(msgs, keywords) ==
  LET allText == toLowerCase(joinContents(msgs))
  IN \E i \in 1..Len(keywords) : patternTest(compilePattern(keywords[i]), allText)

COMMAND_STARTERS ==
  { <<"d","e","f","i","n","e">>, <<"e","x","p","l","a","i","n">> }

isLowerLetter(ch) == ch \in LowerSet

\* simpleStarters.includes(w)
includes(list, w) == \E i \in 1..Len(list) : list[i] = w

isSimpleQuestion(text, maxWords, simpleStarters) ==
  LET words == splitWhitespace(trim(text))
      firstWord == SelectSeq(toLowerCase(words[1]), isLowerLetter)
  IN IF Len(words) > maxWords THEN FALSE
     ELSE IF ~includes(simpleStarters, firstWord) THEN FALSE
     ELSE firstWord \in COMMAND_STARTERS \/ (\E i \in 1..Len(text) : text[i] = "?")

(***************************************************************************)
(* classifyMessages, given what its call of loadConfig returned            *)
(***************************************************************************)
\* classifyMessages returning early only for a missing config: if (!cfg)
classifyMessages_IgnoresEnabled(cfg, msgs) ==
  IF cfg = Null THEN "claude"
  ELSE IF lastUserMessage(msgs) = Undefined THEN TypeError
  ELSE IF testLocalDirective(mentionStripped(msgs)) THEN "ollama-forced"
  ELSE IF hasPrivacyKeyword(msgs, cfg.routing.privacyKeywords) THEN "ollama-privacy"
  ELSE IF isSimpleQuestion(extractLastUserText(msgs),
                           cfg.routing.maxWordsForSimple,
                           cfg.routing.simpleStarters) THEN "ollama-simple"
  ELSE "claude"

classifyMessages(cfg, msgs) ==
  IF cfg = Null \/ ~cfg.enabled THEN "claude"
  ELSE IF lastUserMessage(msgs) = Undefined THEN TypeError
  ELSE IF testLocalDirective(mentionStripped(msgs)) THEN "ollama-forced"
  ELSE IF hasPrivacyKeyword(msgs, cfg.routing.privacyKeywords) THEN "ollama-privacy"
  ELSE IF isSimpleQuestion(extractLastUserText(msgs),
                           cfg.routing.maxWordsForSimple,
                           cfg.routing.simpleStarters) THEN "ollama-simple"
  ELSE "claude"

(***************************************************************************)
(* The inputs: policies, the states of the configuration file, strings     *)
(* and conversations.                                                      *)
(***************************************************************************)
Ollama(timeout) ==
  [ baseUrl |-> "http://localhost:11434",
    timeoutMs |-> timeout,
    models |-> [simple |-> "model-simple", general |-> "model-general",
                reasoning |-> "model-reasoning"] ]

\* maxWordsForSimple 2; keywords "SSN" and "pin#"; starter what
PolicyA ==
  [ enabled |-> TRUE,
    ollama |-> Ollama(30000),
    routing |-> [ maxWordsForSimple |-> 2,
                  privacyKeywords |-> << <<"S","S","N">>, <<"p","i","n","#">> >>,
                  simpleStarters |-> << <<"w","h","a","t">> >> ] ]

\* maxWordsForSimple 1; keywords "my pin" and "pin#"; starters what, define
PolicyB ==
  [ enabled |-> TRUE,
    ollama |-> Ollama(5000),
    routing |-> [ maxWordsForSimple |-> 1,
                  privacyKeywords |-> << <<"m","y"," ","p","i","n">>, <<"p","i","n","#">> >>,
                  simpleStarters |-> << <<"w","h","a","t">>, <<"d","e","f","i","n","e">> >> ] ]

PolicyOff == [PolicyA EXCEPT !.enabled = FALSE]

Policies == {PolicyA, PolicyB, PolicyOff}
Files == {FileMissing, FileInvalid} \cup {FileWith(p) : p \in Policies}

\* The longest body of a message, in pieces
MaxPieces == 2

\* "", "@Andy ", "@"
Mentions == { <<>>, <<"@","A","n","d","y"," ">>, <<"@">> }
\* "", "!local ", "!LOCAL"
Directives == { <<>>, <<"!","l","o","c","a","l"," ">>, <<"!","L","O","C","A","L">> }
\* "What ", "define ", "ssn", "pin#", "x?", "My \t"
Pieces == { <<"W","h","a","t"," ">>, <<"d","e","f","i","n","e"," ">>, <<"s","s","n">>, <<"p","i","n","#">>, <<"x","?">>, <<"M","y"," ","\t">> }

RECURSIVE Bodies(_)
Bodies(n) ==
  IF n = 0 THEN { <<>> }
  ELSE LET shorter == Bodies(n - 1)
       IN shorter \cup { b \o q : b \in shorter, q \in Pieces }

Contents ==
  { m \o d \o b : m \in Mentions, d \in Directives, b \in Bodies(MaxPieces) }

Message(text, fromMe, bot) ==
  [content |-> text, is_from_me |-> fromMe, is_bot_message |-> bot]

\* The senders of the main message: a user, a bot
Senders == { <<FALSE, FALSE>>, <<FALSE, TRUE>> }

\* The other message of a conversation: a user's "What x?", a user's
\* "define", the assistant's own "ssn"
OtherMessages ==
  { Message(<<"W","h","a","t"," ","x","?">>, FALSE, FALSE),
    Message(<<"d","e","f","i","n","e">>, FALSE, FALSE),
    Message(<<"s","s","n">>, TRUE, FALSE) }

\* The empty conversation, and the conversations of one message or of two, one
\* of them among OtherMessages
Conversations ==
  LET main == { Message(t, f[1], f[2]) : t \in Contents, f \in Senders }
  IN { <<>> }
     \cup { <<m>> : m \in main }
     \cup { <<o, m>> : o \in OtherMessages, m \in main }
     \cup { <<m, o>> : m \in main, o \in OtherMessages }

(***************************************************************************)
(* tryOllamaRoute and queryOllama: the values of an invocation.            *)
(***************************************************************************)
LocalDecisions == {"ollama-forced", "ollama-simple", "ollama-privacy"}

\* The outcome of a tryOllamaRoute call: not yet returned, null, the formatted
\* string, or the error it threw to its caller
NoOutcome == [kind |-> "none"]
Absent == [kind |-> "absent"]
Text(str) == [kind |-> "text", value |-> str]
Thrown(err) == [kind |-> "throw", error |-> err]

\* How queryOllama ended: not called, awaiting, returned, or threw
NoQuery == [kind |-> "none"]
QueryPending == [kind |-> "pending"]
QueryReturned(str) == [kind |-> "ok", value |-> str]
QueryThrew(err) == [kind |-> "error", error |-> err]

\* The indicators, their first character standing for the emoji
PrivateIndicator == <<"LOCK"," ","[","P","r","i","v","a","t","e","]">>
LocalIndicator == <<"ROBOT"," ","[","L","o","c","a","l","]">>

\* No invocation
Idle ==
  [ pc |-> "idle", cfg |-> Null, decision |-> "none", request |-> Null,
    issued |-> 0, timer |-> "unset", res |-> Null, data |-> Null,
    query |-> NoQuery, outcome |-> NoOutcome ]

\* decision === 'ollama-simple' ? cfg.ollama.models.general : cfg.ollama.models.simple
selectModel_Swapped(decision, cfg) ==
  IF decision = "ollama-simple" THEN cfg.ollama.models.general
  ELSE cfg.ollama.models.simple

\* decision === 'ollama-simple' ? cfg.ollama.models.simple : cfg.ollama.models.general
selectModel(decision, cfg) ==
  IF decision = "ollama-simple" THEN cfg.ollama.models.simple
  ELSE cfg.ollama.models.general

\* The test against the decision's name in the design, not in the code
isClaude_WrongLiteral(decision) == decision = "remote"

\* decision === 'claude'
isClaude(decision) == decision = "claude"

\* queryOllama without its finally: the timer is left as it is
clearTimeout_Leaks(t) == t

\* clearTimeout(timer): a timer that fired or was cleared stays as it is
clearTimeout(t) == IF t = "pending" THEN "cleared" ELSE t

\* The invocation after the synchronous part of tryOllamaRoute(msgs), cfg
\* being what loadConfig returned: it has returned null, thrown, or it awaits
\* the fetch of queryOllama with the timer set
startRoute(cfg, msgs) ==
  IF cfg = Null \/ ~cfg.enabled
    THEN [Idle EXCEPT !.pc = "returned", !.cfg = cfg, !.outcome = Absent]
  ELSE LET decision == classifyMessages(cfg, msgs)
       IN IF decision = TypeError
            THEN [Idle EXCEPT !.pc = "returned", !.cfg = cfg,
                              !.outcome = Thrown(TypeError)]
          ELSE IF isClaude(decision)
            THEN [Idle EXCEPT !.pc = "returned", !.cfg = cfg,
                              !.decision = decision, !.outcome = Absent]
          ELSE [ pc |-> "fetching",
                 cfg |-> cfg,
                 decision |-> decision,
                 request |-> [ prompt |-> extractLastUserText(msgs),
                               model |-> selectModel(decision, cfg),
                               baseUrl |-> cfg.ollama.baseUrl,
                               timeoutMs |-> cfg.ollama.timeoutMs ],
                 issued |-> 1,
                 timer |-> "pending",
                 res |-> Null,
                 data |-> Null,
                 query |-> QueryPending,
                 outcome |-> NoOutcome ]

\* A failed query answered with a second request
queryFails_Retries(r, err) ==
  [r EXCEPT !.issued = @ + 1, !.pc = "fetching", !.query = QueryPending]

\* tryOllamaRoute without its catch: the error of queryOllama reaches the caller
queryFails_Rethrows(r, err) ==
  [r EXCEPT !.pc = "returned", !.timer = clearTimeout(@),
            !.query = QueryThrew(err), !.outcome = Thrown(err)]

\* queryOllama throws err: its finally clears the timer, and the catch of
\* tryOllamaRoute returns null
queryFails(r, err) ==
  [r EXCEPT !.pc = "returned", !.timer = clearTimeout(@),
            !.query = QueryThrew(err), !.outcome = Absent]

\* tryOllamaRoute with one indicator for every local decision
querySucceeds_OneIndicator(r, response) ==
  [r EXCEPT !.pc = "returned", !.timer = clearTimeout(@),
            !.query = QueryReturned(trim(response)),
            !.outcome = Text(LocalIndicator \o <<" ">> \o trim(response))]

\* queryOllama returns data.response.trim(): its finally clears the timer, and
\* tryOllamaRoute returns `${indicator} ${response}`
querySucceeds(r, response) ==
  LET indicator == IF r.decision = "ollama-privacy" THEN PrivateIndicator
                   ELSE LocalIndicator
  IN [r EXCEPT !.pc = "returned", !.timer = clearTimeout(@),
               !.query = QueryReturned(trim(response)),
               !.outcome = Text(indicator \o <<" ">> \o trim(response))]

\* What res.json() resolves with: the done flag and the response field, a
\* string or not
Payload(done, isString, str) ==
  [done |-> done, response |-> IF isString THEN [type |-> "string", value |-> str]
                                ELSE [type |-> "undefined"]]

\* " ok " with done, with done false, and a payload without a response string
Payloads ==
  { Payload(TRUE, TRUE, <<" ","o","k"," ">>), Payload(FALSE, TRUE, <<" ","o","k"," ">>), Payload(TRUE, FALSE, <<>>) }

\* The conversations callers route: the empty one, and one or two messages
RoutedConversations ==
  { <<>>,
    << Message(<<"@","A","n","d","y"," ","!","l","o","c","a","l"," ","x","?">>, FALSE, FALSE) >>,
    << Message(<<"s","s","n">>, FALSE, FALSE) >>,
    << Message(<<"W","h","a","t"," ","x","?">>, FALSE, FALSE) >>,
    << Message(<<"d","e","f","i","n","e">>, FALSE, FALSE) >>,
    << Message(<<"p","i","n","#">>, FALSE, FALSE) >>,
    << Message(<<"s","s","n">>, FALSE, TRUE), Message(<<"W","h","a","t"," ","x","?">>, FALSE, FALSE) >> }


Callers == {"c1", "c2"}

\* The most classifyMessages calls a caller makes on its conversation
MaxCalls == 2

vars == <<file, cachedConfig, reads, messages, classified, route>>

(***************************************************************************)
(* classifyMessages(messages), called by caller c on the conversation it   *)
(* holds: loadConfig fills the cache, the decision is returned.            *)
(***************************************************************************)
\* classifyMessages finding the subject message with messages.reverse(),
\* which reverses the caller's array in place
ClassifyMessages_Reversing(c) ==
  /\ route[c].pc = "idle"
  /\ Len(classified[c]) < MaxCalls
  /\ LET cfg == loadConfig
     IN /\ cachedConfig' = cfg
        /\ reads' = readFileSync
        /\ classified' = [classified EXCEPT ![c] =
             Append(@, [cfg |-> cfg, decision |-> classifyMessages(cfg, messages[c])])]
  /\ messages' = [messages EXCEPT ![c] = [i \in 1..Len(@) |-> @[Len(@) + 1 - i]]]
  /\ UNCHANGED <<file, route>>

ClassifyMessages(c) ==
  /\ route[c].pc = "idle"
  /\ Len(classified[c]) < MaxCalls
  /\ LET cfg == loadConfig
     IN /\ cachedConfig' = cfg
        /\ reads' = readFileSync
        /\ classified' = [classified EXCEPT ![c] =
             Append(@, [cfg |-> cfg, decision |-> classifyMessages(cfg, messages[c])])]
  /\ UNCHANGED <<file, messages, route>>

InitClassify ==
  /\ file \in Files
  /\ cachedConfig = Null
  /\ reads = {}
  /\ \E m \in Conversations : messages = [c \in Callers |-> IF c = "c1" THEN m ELSE <<>>]
  /\ classified = [c \in Callers |-> <<>>]
  /\ route = [c \in Callers |-> Idle]

NextClassify == ClassifyMessages("c1")

SpecClassify == InitClassify /\ [][NextClassify]_vars


(***************************************************************************)
(* tryOllamaRoute(msgs, groupName), called by caller c: loadConfig, the    *)
(* classifier, and the start of queryOllama.                               *)
(***************************************************************************)
TryOllamaRoute(c, msgs) ==
  /\ route[c].pc = "idle"
  /\ LET cfg == loadConfig
     IN /\ cachedConfig' = cfg
        /\ reads' = readFileSync
        /\ route' = [route EXCEPT ![c] = startRoute(cfg, msgs)]
  /\ messages' = [messages EXCEPT ![c] = msgs]
  /\ UNCHANGED <<file, classified>>

\* fetch resolves with a response whose status is or is not in the success
\* range: !res.ok throws, res.ok goes on to await res.json()
FetchResolves(c, ok) ==
  /\ route[c].pc = "fetching"
  /\ route' = [route EXCEPT ![c] =
       IF ok THEN [@ EXCEPT !.pc = "reading", !.res = [ok |-> TRUE]]
       ELSE queryFails([@ EXCEPT !.res = [ok |-> FALSE]], "http")]
  /\ UNCHANGED <<file, cachedConfig, reads, messages, classified>>

\* fetch rejects: the backend cannot be reached
FetchRejects(c) ==
  /\ route[c].pc = "fetching"
  /\ route' = [route EXCEPT ![c] = queryFails(@, "network")]
  /\ UNCHANGED <<file, cachedConfig, reads, messages, classified>>

\* queryOllama returning the response field without looking at the done flag
JsonResolves_IgnoresDone(c, data) ==
  /\ route[c].pc = "reading"
  /\ route' = [route EXCEPT ![c] =
       IF data.response.type # "string"
         THEN queryFails([@ EXCEPT !.data = data], "format")
         ELSE querySucceeds([@ EXCEPT !.data = data], data.response.value)]
  /\ UNCHANGED <<file, cachedConfig, reads, messages, classified>>

\* res.json() resolves with a payload
JsonResolves(c, data) ==
  /\ route[c].pc = "reading"
  /\ route' = [route EXCEPT ![c] =
       IF ~data.done \/ data.response.type # "string"
         THEN queryFails([@ EXCEPT !.data = data], "format")
         ELSE querySucceeds([@ EXCEPT !.data = data], data.response.value)]
  /\ UNCHANGED <<file, cachedConfig, reads, messages, classified>>

\* res.json() rejects: the body is not JSON, or the connection broke
JsonRejects(c) ==
  /\ route[c].pc = "reading"
  /\ route' = [route EXCEPT ![c] = queryFails(@, "body")]
  /\ UNCHANGED <<file, cachedConfig, reads, messages, classified>>

\* A timer whose callback aborts nothing: the request stays in flight
TimerFires_NoAbort(c) ==
  /\ route[c].timer = "pending"
  /\ route[c].pc \in {"fetching", "reading"}
  /\ route' = [route EXCEPT ![c].timer = "fired"]
  /\ UNCHANGED <<file, cachedConfig, reads, messages, classified>>

\* One AbortController shared by the calls: the timer of c aborts every
\* request in flight
TimerFires_SharedController(c) ==
  /\ route[c].timer = "pending"
  /\ route[c].pc \in {"fetching", "reading"}
  /\ route' = [d \in Callers |->
       IF d = c THEN queryFails([route[d] EXCEPT !.timer = "fired"], "timeout")
       ELSE IF route[d].pc \in {"fetching", "reading"}
         THEN queryFails(route[d], "timeout")
       ELSE route[d]]
  /\ UNCHANGED <<file, cachedConfig, reads, messages, classified>>

\* The timer fires: controller.abort() rejects the pending fetch or body read
\* with an AbortError, which queryOllama rethrows as its timeout error
TimerFires(c) ==
  /\ route[c].timer = "pending"
  /\ route[c].pc \in {"fetching", "reading"}
  /\ route' = [route EXCEPT ![c] = queryFails([@ EXCEPT !.timer = "fired"], "timeout")]
  /\ UNCHANGED <<file, cachedConfig, reads, messages, classified>>

\* The caller takes the outcome; it may call again
Return(c) ==
  /\ route[c].pc = "returned"
  /\ route' = [route EXCEPT ![c] = Idle]
  /\ messages' = [messages EXCEPT ![c] = <<>>]
  /\ UNCHANGED <<file, cachedConfig, reads, classified>>

\* llm-routing.json is written, replaced or removed
FileChanges(f) ==
  /\ f # file
  /\ file' = f
  /\ UNCHANGED <<cachedConfig, reads, messages, classified, route>>

Init ==
  /\ file \in Files
  /\ cachedConfig = Null
  /\ reads = {}
  /\ messages = [c \in Callers |-> <<>>]
  /\ classified = [c \in Callers |-> <<>>]
  /\ route = [c \in Callers |-> Idle]

Next ==
  \/ \E c \in Callers, msgs \in RoutedConversations : TryOllamaRoute(c, msgs)
  \/ \E c \in Callers, ok \in BOOLEAN : FetchResolves(c, ok)
  \/ \E c \in Callers : FetchRejects(c)
  \/ \E c \in Callers, data \in Payloads : JsonResolves(c, data)
  \/ \E c \in Callers : JsonRejects(c)
  \/ \E c \in Callers : TimerFires(c)
  \/ \E c \in Callers : Return(c)
  \/ \E f \in Files : FileChanges(f)

Spec == Init /\ [][Next]_vars

\* The event loop runs the callback of a timer that stays pending: the timer
\* of every call eventually fires unless it is cleared. Nothing is assumed
\* of the backend.
SpecLive == Spec /\ \A c \in Callers : WF_vars(TimerFires(c))

(***************************************************************************)
(* Callers that classify and callers that route, while llm-routing.json    *)
(* changes: c1 holds a conversation and calls classifyMessages on it.      *)
(***************************************************************************)
InitMemo ==
  /\ file \in Files
  /\ cachedConfig = Null
  /\ reads = {}
  /\ \E m \in RoutedConversations :
       messages = [c \in Callers |-> IF c = "c1" THEN m ELSE <<>>]
  /\ classified = [c \in Callers |-> <<>>]
  /\ route = [c \in Callers |-> Idle]

NextMemo ==
  \/ ClassifyMessages("c1")
  \/ \E msgs \in RoutedConversations : TryOllamaRoute("c2", msgs)
  \/ \E ok \in BOOLEAN : FetchResolves("c2", ok)
  \/ FetchRejects("c2")
  \/ \E data \in Payloads : JsonResolves("c2", data)
  \/ JsonRejects("c2")
  \/ TimerFires("c2")
  \/ Return("c2")
  \/ \E f \in Files : FileChanges(f)

SpecMemo == InitMemo /\ [][NextMemo]_vars

(***************************************************************************)
(* The conditions the claims are stated with.                              *)
(***************************************************************************)
\* Caller c's i-th classifyMessages call has returned
Returned(c, i) == i <= Len(classified[c])

PolicyEnabled(cfg) == cfg # Null /\ cfg.enabled

\* The subject message: the last one that is neither the assistant's own nor
\* a bot's, else the last one
SubjectOf(msgs) ==
  LET users == { i \in 1..Len(msgs) : ~msgs[i].is_from_me /\ ~msgs[i].is_bot_message }
  IN IF users # {} THEN msgs[CHOOSE i \in users : \A j \in users : j <= i]
     ELSE msgs[Len(msgs)]

\* The text begins with the token !local, in any case, ending at a word boundary
BeginsWithLocalToken(t) ==
  /\ Len(t) >= 6
  /\ \A i \in 1..6 : LowerChar(t[i]) = LocalToken[i]
  /\ (Len(t) > 6 => t[7] \notin WordChars)

ForcedCondition(msgs) ==
  msgs # <<>> /\ BeginsWithLocalToken(stripMention(SubjectOf(msgs).content))

\* The words of a text: its maximal runs of characters that are not whitespace
Words(t) == splitFrom(t, SkipSpace(t, 1))

\* The text contains the phrase as a whole word or phrase: an occurrence of
\* the phrase's words, in order, separated by whitespace, that is neither
\* preceded nor followed by a word character
ContainsPhrase(text, phrase) ==
  LET ws == Words(toLowerCase(phrase))
      first == ws[1][1]
      last == ws[Len(ws)][Len(ws[Len(ws)])]
  IN /\ ws # <<>>
     /\ \E p \in 1..Len(text) :
          /\ text[p] = first
          /\ (p > 1 => ~IsWordChar(text[p - 1]))
          /\ \E e \in p..Len(text) :
               /\ text[e] = last
               /\ (e < Len(text) => ~IsWordChar(text[e + 1]))
               /\ Words(SubSeq(text, p, e)) = ws

PrivacyCondition(msgs, cfg) ==
  LET allText == toLowerCase(joinContents(msgs))
  IN \E k \in 1..Len(cfg.routing.privacyKeywords) :
       ContainsPhrase(allText, cfg.routing.privacyKeywords[k])

\* The first word of a text in lower case, its letters only
FirstWord(t) == SelectSeq(toLowerCase(Words(t)[1]), isLowerLetter)

HasQuestionMark(t) == \E i \in 1..Len(t) : t[i] = "?"

\* At most maxWordsForSimple words, the first of them a configured starter
ShortWithStarter(msgs, cfg) ==
  LET bare == extractLastUserText(msgs)
  IN /\ Words(bare) # <<>>
     /\ Len(Words(bare)) <= cfg.routing.maxWordsForSimple
     /\ \E k \in 1..Len(cfg.routing.simpleStarters) :
          cfg.routing.simpleStarters[k] = FirstWord(bare)

QuestionCondition(msgs, cfg) ==
  ShortWithStarter(msgs, cfg) /\ HasQuestionMark(extractLastUserText(msgs))

CommandCondition(msgs, cfg) ==
  /\ ShortWithStarter(msgs, cfg)
  /\ FirstWord(extractLastUserText(msgs)) \in COMMAND_STARTERS

\* llm-routing.json is missing, unparseable, or holds enabled=false
PolicyOffOrUnavailable == file.kind # "json" \/ ~file.value.enabled

(***************************************************************************)
(* C1: a classifyMessages call for which loadConfig returned null or a     *)
(* config with enabled=false returns 'claude'; so does every call while    *)
(* the configuration file is missing, unparseable or holds enabled=false,  *)
(* whatever the conversation holds.                                        *)
(***************************************************************************)
C1_DisabledIsRemote ==
  \A c \in Callers : \A i \in 1..Len(classified[c]) :
    (PolicyOffOrUnavailable \/ ~PolicyEnabled(classified[c][i].cfg))
      => classified[c][i].decision = "claude"

\* A call returned under a missing file or a disabled policy, on a
\* conversation that begins with !local
C1_Witness ==
  /\ file \in {FileMissing, FileWith(PolicyOff)}
  /\ Returned("c1", 1)
  /\ ForcedCondition(messages["c1"])
  /\ classified["c1"][1].decision = "claude"

(***************************************************************************)
(* C2: with the policy enabled, a conversation whose subject text begins,  *)
(* after the @mention, with !local (any case, word boundary) is classified *)
(* 'ollama-forced', whatever else it holds.                                *)
(***************************************************************************)
C2_ForcedLocal ==
  \A c \in Callers : \A i \in 1..Len(classified[c]) :
    (PolicyEnabled(classified[c][i].cfg) /\ ForcedCondition(messages[c]))
      => classified[c][i].decision = "ollama-forced"

\* "@Andy !LOCAL" after a message of the assistant's own with the keyword ssn
C2_Witness ==
  /\ Returned("c1", 1)
  /\ classified["c1"][1].cfg = PolicyA
  /\ Len(messages["c1"]) = 2
  /\ messages["c1"][2].content = <<"@","A","n","d","y"," ","!","L","O","C","A","L">>
  /\ isUserMessage(messages["c1"][2])
  /\ PrivacyCondition(messages["c1"], PolicyA)
  /\ classified["c1"][1].decision = "ollama-forced"

(***************************************************************************)
(* C3: with the policy enabled, a conversation whose joined, lower-cased   *)
(* text contains a configured privacy phrase as a whole word or phrase,    *)
(* and whose subject text does not begin with !local, is classified        *)
(* 'ollama-privacy'.                                                       *)
(***************************************************************************)
C3_PrivacyLocal ==
  \A c \in Callers : \A i \in 1..Len(classified[c]) :
    LET cfg == classified[c][i].cfg
    IN (/\ PolicyEnabled(cfg)
        /\ messages[c] # <<>>
        /\ PrivacyCondition(messages[c], cfg)
        /\ ~ForcedCondition(messages[c]))
         => classified[c][i].decision = "ollama-privacy"

(***************************************************************************)
(* C4: with the policy enabled, a subject text of at most                  *)
(* maxWordsForSimple words whose first word is a configured starter and    *)
(* which contains "?" is classified 'ollama-simple', unless the !local or  *)
(* the privacy condition matches, and then that decision is returned.      *)
(***************************************************************************)
C4_SimpleQuestion ==
  \A c \in Callers : \A i \in 1..Len(classified[c]) :
    LET cfg == classified[c][i].cfg
    IN (/\ PolicyEnabled(cfg)
        /\ messages[c] # <<>>
        /\ QuestionCondition(messages[c], cfg))
         => classified[c][i].decision =
              IF ForcedCondition(messages[c]) THEN "ollama-forced"
              ELSE IF PrivacyCondition(messages[c], cfg) THEN "ollama-privacy"
              ELSE "ollama-simple"

(***************************************************************************)
(* C5: with the policy enabled and neither the !local nor the privacy      *)
(* condition matching, a subject text of at most maxWordsForSimple words   *)
(* whose first word is a command starter (define, explain) among the       *)
(* configured starters is classified 'ollama-simple', with or without "?". *)
(***************************************************************************)
C5_CommandStarter ==
  \A c \in Callers : \A i \in 1..Len(classified[c]) :
    LET cfg == classified[c][i].cfg
    IN (/\ PolicyEnabled(cfg)
        /\ messages[c] # <<>>
        /\ ~ForcedCondition(messages[c])
        /\ ~PrivacyCondition(messages[c], cfg)
        /\ CommandCondition(messages[c], cfg))
         => classified[c][i].decision = "ollama-simple"

(***************************************************************************)
(* C6: with the policy enabled, the decision is that of the first rule     *)
(* that matches, in the order !local, privacy phrase, simple question; it  *)
(* is 'claude' exactly when none of the three matches.                     *)
(***************************************************************************)
C6_FirstMatchWins ==
  \A c \in Callers : \A i \in 1..Len(classified[c]) :
    LET cfg == classified[c][i].cfg
    IN (PolicyEnabled(cfg) /\ messages[c] # <<>>)
         => classified[c][i].decision =
              IF ForcedCondition(messages[c]) THEN "ollama-forced"
              ELSE IF PrivacyCondition(messages[c], cfg) THEN "ollama-privacy"
              ELSE IF QuestionCondition(messages[c], cfg)
                      \/ CommandCondition(messages[c], cfg) THEN "ollama-simple"
              ELSE "claude"

\* The calls a caller made under one policy returned one decision
SameDecisions ==
  \A c \in Callers : \A i, j \in 1..Len(classified[c]) :
    classified[c][i].cfg = classified[c][j].cfg
      => classified[c][i].decision = classified[c][j].decision

DecisionOf(c) == classifyMessages(route[c].cfg, messages[c])

\* The bare text of the subject message: its content without the leading
\* @mention and !local, trimmed
BareTextOf(msgs) == trim(stripLocal(stripMention(SubjectOf(msgs).content)))

\* The model the policy names for a local decision
ModelFor(decision, cfg) ==
  CASE decision = "ollama-simple" -> cfg.ollama.models.simple
    [] decision \in {"ollama-forced", "ollama-privacy"} -> cfg.ollama.models.general

(***************************************************************************)
(* C8: a tryOllamaRoute invocation whose policy is disabled or unavailable,*)
(* or whose conversation the classifier decides 'claude', has returned     *)
(* null and has issued no backend request.                                 *)
(***************************************************************************)
C8_AbsentWithoutRequest ==
  \A c \in Callers :
    (/\ route[c].pc # "idle"
     /\ (~PolicyEnabled(route[c].cfg) \/ DecisionOf(c) = "claude"))
      => /\ route[c].pc = "returned"
         /\ route[c].outcome = Absent
         /\ route[c].issued = 0
         /\ route[c].request = Null

\* One invocation returned null under an enabled policy that decides
\* 'claude', another under a policy that is disabled or unavailable
C8_Witness ==
  /\ route["c1"].pc = "returned"
  /\ PolicyEnabled(route["c1"].cfg)
  /\ DecisionOf("c1") = "claude"
  /\ route["c1"].outcome = Absent
  /\ route["c2"].pc = "returned"
  /\ ~PolicyEnabled(route["c2"].cfg)
  /\ messages["c2"] # <<>>
  /\ route["c2"].outcome = Absent

(***************************************************************************)
(* C9: the model of a backend request is the policy's simple model exactly *)
(* when the decision is 'ollama-simple', its general model for             *)
(* 'ollama-forced' and 'ollama-privacy', and never its reasoning model.    *)
(***************************************************************************)
C9_ModelSelection ==
  \A c \in Callers :
    route[c].request # Null =>
      LET models == route[c].cfg.ollama.models
          model == route[c].request.model
      IN /\ (model = models.simple) <=> (DecisionOf(c) = "ollama-simple")
         /\ DecisionOf(c) \in {"ollama-forced", "ollama-privacy"}
              => model = models.general
         /\ model # models.reasoning

\* A simple question and a !local request in flight together
C9_Witness ==
  /\ route["c1"].pc = "fetching"
  /\ DecisionOf("c1") = "ollama-simple"
  /\ route["c1"].request.model = "model-simple"
  /\ route["c2"].pc = "fetching"
  /\ DecisionOf("c2") = "ollama-forced"
  /\ route["c2"].request.model = "model-general"

(***************************************************************************)
(* C10: an invocation with the policy enabled and a local decision has     *)
(* issued exactly one backend request, also after that request failed or   *)
(* timed out, and the request carries the bare text of the subject         *)
(* message, the selected model and the configured timeout.                 *)
(***************************************************************************)
C10_ExactlyOneRequest ==
  \A c \in Callers :
    (/\ route[c].pc # "idle"
     /\ PolicyEnabled(route[c].cfg)
     /\ DecisionOf(c) \in LocalDecisions)
      => /\ route[c].issued = 1
         /\ route[c].request # Null
         /\ route[c].request.prompt = BareTextOf(messages[c])
         /\ route[c].request.model = ModelFor(DecisionOf(c), route[c].cfg)
         /\ route[c].request.timeoutMs = route[c].cfg.ollama.timeoutMs

\* An invocation that returned after its request timed out, on the
\* conversation of a bot's "ssn" and a user's "What x?"
C10_Witness ==
  /\ route["c1"].pc = "returned"
  /\ route["c1"].query = QueryThrew("timeout")
  /\ route["c1"].issued = 1
  /\ Len(messages["c1"]) = 2
  /\ DecisionOf("c1") = "ollama-privacy"
  /\ route["c1"].request.prompt = <<"W","h","a","t"," ","x","?">>

(***************************************************************************)
(* C11: an invocation whose backend call succeeded returns the response    *)
(* text after an indicator and a space; the indicator is the private one   *)
(* exactly when the decision is 'ollama-privacy', the local one for        *)
(* 'ollama-forced' and 'ollama-simple', and the two indicators differ.     *)
(***************************************************************************)
C11_Indicators ==
  /\ PrivateIndicator # LocalIndicator
  /\ \A c \in Callers :
       route[c].query.kind = "ok" =>
         LET response == route[c].query.value
         IN /\ route[c].pc = "returned"
            /\ route[c].outcome.kind = "text"
            /\ (route[c].outcome.value = PrivateIndicator \o <<" ">> \o response)
                 <=> (DecisionOf(c) = "ollama-privacy")
            /\ DecisionOf(c) \in {"ollama-forced", "ollama-simple"}
                 => route[c].outcome.value = LocalIndicator \o <<" ">> \o response

\* A privacy answer and a simple answer, both returned with "ok"
C11_Witness ==
  /\ route["c1"].query = QueryReturned(<<"o","k">>)
  /\ DecisionOf("c1") = "ollama-privacy"
  /\ route["c1"].outcome = Text(PrivateIndicator \o <<" ","o","k">>)
  /\ route["c2"].query = QueryReturned(<<"o","k">>)
  /\ DecisionOf("c2") = "ollama-simple"
  /\ route["c2"].outcome = Text(LocalIndicator \o <<" ","o","k">>)

\* The failures of a backend call: the HTTP status, the payload, the body
\* that cannot be read, the network, the timeout
BackendFailures == {"http", "format", "body", "network", "timeout"}

(***************************************************************************)
(* C12: an invocation whose backend call failed, by a network error, a     *)
(* non-success HTTP status, a malformed payload or the timeout, has        *)
(* returned null; it has raised no error to its caller.                    *)
(***************************************************************************)
C12_FailureIsAbsent ==
  \A c \in Callers :
    /\ route[c].query.kind = "error" =>
         /\ route[c].query.error \in BackendFailures
         /\ route[c].pc = "returned"
         /\ route[c].outcome = Absent
    /\ route[c].outcome.kind = "throw" => route[c].query = NoQuery

\* One invocation returned null after the timeout, the other after a payload
\* without the done flag
C12_Witness ==
  /\ route["c1"].query = QueryThrew("timeout")
  /\ route["c1"].timer = "fired"
  /\ route["c1"].outcome = Absent
  /\ route["c2"].query = QueryThrew("format")
  /\ route["c2"].data # Null
  /\ ~route["c2"].data.done
  /\ route["c2"].outcome = Absent

(***************************************************************************)
(* queryOllama in the claims.                                              *)
(***************************************************************************)
\* The queryOllama call of caller c has returned or thrown
QueryEnded(c) == route[c].query.kind \in {"ok", "error"}

\* The HTTP status is outside the success range
StatusNotOk(r) == r.res # Null /\ ~r.res.ok

\* The payload's done flag is missing or false, or its response field is not
\* a string
PayloadMalformed(r) ==
  r.data # Null /\ (~r.data.done \/ r.data.response.type # "string")

\* The timeout elapsed before the call completed
TimedOut(r) == r.timer = "fired"

\* No response or no payload arrived though the timeout did not elapse: the
\* fetch or the reading of the body was rejected
TransportFailed(r) ==
  /\ ~TimedOut(r)
  /\ r.data = Null
  /\ (r.res = Null \/ r.res.ok)

\* The trimmed response text of the payload
TrimmedResponse(r) ==
  IF r.data # Null /\ r.data.response.type = "string"
    THEN QueryReturned(trim(r.data.response.value))
    ELSE NoQuery

(***************************************************************************)
(* C13: a queryOllama call that ended has thrown when the HTTP status was  *)
(* outside the success range, the payload's done flag was missing or       *)
(* false, its response field was not a string, the fetch or the reading of *)
(* the body was rejected, or the timeout elapsed; it has thrown the        *)
(* timeout error exactly when the timeout elapsed; in every other case it  *)
(* has returned the trimmed response text.                                 *)
(***************************************************************************)
C13_QueryOutcome ==
  \A c \in Callers :
    QueryEnded(c) =>
      LET r == route[c]
          fails == StatusNotOk(r) \/ PayloadMalformed(r) \/ TimedOut(r)
                     \/ TransportFailed(r)
      IN /\ fails <=> (r.query.kind = "error")
         /\ TimedOut(r) <=> (r.query = QueryThrew("timeout"))
         /\ ~fails => r.query = TrimmedResponse(r)

\* One call failed because the fetch was rejected, the other returned "ok"
\* for the response " ok "
C13_Witness ==
  /\ route["c1"].query = QueryThrew("network")
  /\ TransportFailed(route["c1"])
  /\ route["c2"].query = QueryReturned(<<"o","k">>)
  /\ route["c2"].data.response.value = <<" ","o","k"," ">>

\* C13 as stated: the call fails for the status, the payload and the timeout,
\* and returns the trimmed response text in every other case
C13_AsStated ==
  \A c \in Callers :
    QueryEnded(c) =>
      LET r == route[c]
          fails == StatusNotOk(r) \/ PayloadMalformed(r) \/ TimedOut(r)
      IN /\ fails => (r.query.kind = "error")
         /\ TimedOut(r) <=> (r.query = QueryThrew("timeout"))
         /\ ~fails => r.query = TrimmedResponse(r)

\* The callers whose timer is pending, and those whose backend call is in flight
PendingTimers == { c \in Callers : route[c].timer = "pending" }
InFlight == { c \in Callers : route[c].query = QueryPending }

(***************************************************************************)
(* C14: after a queryOllama call has returned or thrown, by success, an    *)
(* HTTP or format error, a network error or the timeout, its timer is not  *)
(* pending; the pending timers are never more than the backend calls in    *)
(* flight.                                                                 *)
(***************************************************************************)
C14_TimerCleared ==
  /\ \A c \in Callers : QueryEnded(c) => route[c].timer \in {"cleared", "fired"}
  /\ Cardinality(PendingTimers) <= Cardinality(InFlight)

\* A call that returned and a call that threw for the HTTP status, both with
\* the timer cleared, none in flight
C14_Witness ==
  /\ route["c1"].query.kind = "ok"
  /\ route["c1"].timer = "cleared"
  /\ route["c2"].query = QueryThrew("http")
  /\ route["c2"].timer = "cleared"
  /\ InFlight = {}

\* Caller c begins a tryOllamaRoute call in this step
RouteBegins(c) == route[c].pc = "idle" /\ route'[c].pc # "idle"

\* Caller c makes a classifyMessages call in this step
ClassifyReturns(c) == Len(classified'[c]) = Len(classified[c]) + 1

(***************************************************************************)
(* C15: once loadConfig has loaded a policy, the cached configuration      *)
(* never changes and the file is not read again: every read of the file    *)
(* found the cache empty, and every later classifyMessages and             *)
(* tryOllamaRoute call uses the cached policy, whatever the file has       *)
(* become.                                                                 *)
(***************************************************************************)
C15_WriteOnce ==
  /\ [][cachedConfig # Null => cachedConfig' = cachedConfig]_vars
  /\ [](reads \subseteq {Null})
  /\ [][\A c \in Callers :
         (cachedConfig # Null /\ RouteBegins(c)) => route'[c].cfg = cachedConfig]_vars
  /\ [][\A c \in Callers :
         (cachedConfig # Null /\ ClassifyReturns(c))
           => classified'[c][Len(classified'[c])].cfg = cachedConfig]_vars

\* The file has gone, the cache holds the policy loaded first; two
\* classifyMessages calls used it, and so does a tryOllamaRoute call in flight
C15_Witness ==
  /\ file = FileMissing
  /\ cachedConfig = PolicyA
  /\ Len(classified["c1"]) = 2
  /\ classified["c1"][1].cfg = Null
  /\ classified["c1"][2].cfg = PolicyA
  /\ route["c2"].pc = "fetching"
  /\ route["c2"].cfg = PolicyA

\* What an invocation returns, from its conversation, the policy it loaded and
\* the end of its own backend request
OutcomeFrom(msgs, cfg, query) ==
  IF ~PolicyEnabled(cfg) THEN Absent
  ELSE IF msgs = <<>> THEN Thrown(TypeError)
  ELSE IF classifyMessages(cfg, msgs) = "claude" THEN Absent
  ELSE IF query.kind = "ok"
    THEN Text((IF classifyMessages(cfg, msgs) = "ollama-privacy"
                 THEN PrivateIndicator ELSE LocalIndicator)
              \o <<" ">> \o query.value)
  ELSE Absent

(***************************************************************************)
(* C16: with invocations in flight together, a step changes the invocation *)
(* of one caller only; a request is aborted by the timeout only when the   *)
(* timer of its own call fired; and what an invocation returns is          *)
(* determined by its own conversation, the policy and the end of its own   *)
(* backend request.                                                        *)
(***************************************************************************)
C16_NoCrossCancellation ==
  /\ [][\A c, d \in Callers :
         c # d => (route'[c] = route[c] \/ route'[d] = route[d])]_vars
  /\ [](\A c \in Callers :
         /\ route[c].query = QueryThrew("timeout") => route[c].timer = "fired"
         /\ route[c].pc = "returned"
              => route[c].outcome = OutcomeFrom(messages[c], route[c].cfg, route[c].query))

\* The timer of c1 fired and c1 returned null, while the request of c2 is
\* still in flight with its timer pending
C16_Witness ==
  /\ route["c1"].pc = "returned"
  /\ route["c1"].timer = "fired"
  /\ route["c1"].outcome = Absent
  /\ route["c2"].pc = "reading"
  /\ route["c2"].timer = "pending"
  /\ route["c2"].query = QueryPending

(***************************************************************************)
(* C17: every tryOllamaRoute invocation that awaits its backend request    *)
(* eventually returns, a string or null, though the backend may never      *)
(* respond: the timer fires, the request is aborted and the call returns.  *)
(***************************************************************************)
C17_EventuallyReturns ==
  \A c \in Callers :
    (route[c].pc \in {"fetching", "reading"})
      ~> (route[c].pc = "returned" /\ route[c].outcome.kind \in {"text", "absent"})

\* An invocation that returned null when its timer fired, no response having
\* arrived from the backend
C17_Witness ==
  /\ route["c2"].pc = "returned"
  /\ route["c2"].timer = "fired"
  /\ route["c2"].res = Null
  /\ route["c2"].query = QueryThrew("timeout")
  /\ route["c2"].outcome = Absent

C19_EmptyConversationThrows ==
  \A c \in Callers :
    /\ \A i \in 1..Len(classified[c]) :
         (PolicyEnabled(classified[c][i].cfg) /\ messages[c] = <<>>)
           => classified[c][i].decision = TypeError
    /\ (route[c].pc # "idle" /\ PolicyEnabled(route[c].cfg) /\ messages[c] = <<>>)
         => /\ route[c].pc = "returned"
            /\ route[c].outcome = Thrown(TypeError)
            /\ route[c].issued = 0
            /\ route[c].request = Null
            /\ route[c].query = NoQuery

\* classifyMessages threw for c1 and tryOllamaRoute threw for c2, both on an
\* empty conversation under an enabled policy
C19_Witness ==
  /\ messages["c1"] = <<>>
  /\ Returned("c1", 1)
  /\ PolicyEnabled(classified["c1"][1].cfg)
  /\ classified["c1"][1].decision = TypeError
  /\ messages["c2"] = <<>>
  /\ route["c2"].pc = "returned"
  /\ PolicyEnabled(route["c2"].cfg)
  /\ route["c2"].outcome = Thrown(TypeError)

====
